---- MODULE Spec2Model ----
(***************************************************************************)
(* Model of resolve_dependencies.py, the HaikuPorts build dependency       *)
(* resolver: the per-token cleaning and the line-oriented block parser of  *)
(* parse_recipe, the directory lookup of find_recipe_file and              *)
(* normalize_package_name_for_find, the recursive traversal of             *)
(* resolve_dependencies_recursive and the final filter of main.            *)
(*                                                                         *)
(* A Python str is modelled as a sequence of one-character strings, so     *)
(* that startswith, endswith, split, replace and strip are computed on the *)
(* characters as the code computes them.                                   *)
(***************************************************************************)
EXTENDS Integers, Sequences, FiniteSets, TLC

(***************************************************************************)
(* Python str primitives                                                   *)
(***************************************************************************)

\* The characters str.strip(), str.rstrip() and str.split() treat as blank.
Whitespace == {" ", "\t"}

\* s[n:]
DropFirst(s, n) == IF n >= Len(s) THEN <<>> ELSE SubSeq(s, n + 1, Len(s))

\* s[:-n] for n >= 1
DropLast(s, n) == IF n >= Len(s) THEN <<>> ELSE SubSeq(s, 1, Len(s) - n)

\* s.startswith(p)
StartsWith(s, p) == Len(p) <= Len(s) /\ SubSeq(s, 1, Len(p)) = p

\* s.endswith(p)
EndsWith(s, p) == Len(p) <= Len(s) /\ SubSeq(s, Len(s) - Len(p) + 1, Len(s)) = p

\* s.find(p) + 1: the position of the first occurrence of p in s, 0 if none.
Find(s, p) ==
    LET hits == {i \in 1..(Len(s) - Len(p) + 1) : SubSeq(s, i, i + Len(p) - 1) = p}
    IN  IF hits = {} THEN 0 ELSE CHOOSE i \in hits : \A j \in hits : i <= j

\* p in s
Contains(s, p) == Find(s, p) # 0

\* s.split(sep)[0] and s.split(sep, 1)[0]
SplitHead(s, sep) == IF Contains(s, sep) THEN SubSeq(s, 1, Find(s, sep) - 1) ELSE s

\* s.split(sep, 1)[1], for s that contains sep
SplitRest(s, sep) == DropFirst(s, Find(s, sep) + Len(sep) - 1)

\* s.replace(old, ""): every non-overlapping occurrence, left to right
RECURSIVE Remove(_, _)
Remove(s, old) ==
    IF ~Contains(s, old) THEN s
    ELSE SubSeq(s, 1, Find(s, old) - 1)
             \o Remove(DropFirst(s, Find(s, old) + Len(old) - 1), old)

\* s.lstrip()
LStrip(s) ==
    LET kept == {i \in 1..Len(s) : s[i] \notin Whitespace}
    IN  IF kept = {} THEN <<>>
        ELSE SubSeq(s, CHOOSE i \in kept : \A j \in kept : i <= j, Len(s))

\* s.rstrip()
RStrip(s) ==
    LET kept == {i \in 1..Len(s) : s[i] \notin Whitespace}
    IN  IF kept = {} THEN <<>>
        ELSE SubSeq(s, 1, CHOOSE i \in kept : \A j \in kept : i >= j)

\* s.strip()
Strip(s) == LStrip(RStrip(s))

\* s.split(): the maximal runs of non-blank characters, in order
RECURSIVE SplitWords(_)
SplitWords(s) ==
    LET t == LStrip(s)
        blanks == {i \in 1..Len(t) : t[i] \in Whitespace}
        stop == IF blanks = {} THEN Len(t) + 1
                ELSE CHOOSE i \in blanks : \A j \in blanks : i <= j
    IN  IF t = <<>> THEN <<>>
        ELSE <<SubSeq(t, 1, stop - 1)>> \o SplitWords(DropFirst(t, stop - 1))

\* s.isdigit(): non-empty and every character a digit
IsDigit(s) ==
    /\ s # <<>>
    /\ \A i \in 1..Len(s) : s[i] \in {"0", "1", "2", "3", "4", "5", "6", "7", "8", "9"}

(***************************************************************************)
(* parse_recipe: cleaning of one whitespace-separated token                *)
(***************************************************************************)

\* The prefixes parse_recipe splits off and retains.
RecipePrefixes ==
    << <<"c", "m", "d", ":">>, <<"l", "i", "b", ":">>,
       <<"d", "e", "v", "e", "l", ":">>, <<"h", "p", "k", "g", ":">>,
       <<"d", "a", "t", "a", ":">>, <<"s", "o", "u", "r", "c", "e", ":">> >>

version_specifiers ==
    << <<"=", "=">>, <<">", "=">>, <<"<", "=">>, <<">">>, <<"<">>,
       <<"~", "=">>, <<"!", "=">> >>

\* The variables removed by the chain of str.replace calls, in call order.
RecipeVariables ==
    << <<"$", "s", "e", "c", "o", "n", "d", "a", "r", "y", "A", "r", "c", "h",
         "S", "u", "f", "f", "i", "x">>,
       <<"$", "{", "s", "e", "c", "o", "n", "d", "a", "r", "y", "A", "r", "c",
         "h", "S", "u", "f", "f", "i", "x", "}">>,
       <<"$", "a", "r", "c", "h">>,
       <<"$", "{", "a", "r", "c", "h", "}">>,
       <<"$", "e", "f", "f", "e", "c", "t", "i", "v", "e", "T", "a", "r", "g",
         "e", "t", "A", "r", "c", "h", "i", "t", "e", "c", "t", "u", "r", "e">>,
       <<"$", "{", "e", "f", "f", "e", "c", "t", "i", "v", "e", "T", "a", "r",
         "g", "e", "t", "A", "r", "c", "h", "i", "t", "e", "c", "t", "u", "r",
         "e", "}">> >>

suffixes_to_strip ==
    << <<"_", "x", "8", "6", "_", "g", "c", "c", "2">>,
       <<"_", "x", "8", "6">>,
       <<"_", "h", "o", "s", "t">>,
       <<"_", "b", "u", "i", "l", "d">>,
       <<"_", "s", "o", "u", "r", "c", "e", "_", "k", "i", "t">>,
       <<"_", "c", "r", "o", "s", "s">>,
       <<"_", "b", "o", "o", "t", "s", "t", "r", "a", "p">>,
       <<"_", "t", "o", "o", "l", "s">>,
       <<"_", "d", "e", "v", "e", "l">> >>

s_haiku == <<"h", "a", "i", "k", "u">>

\* The names that are never a dependency.
Placeholders ==
    { <<"n", "o", "n", "e">>, <<"a", "n", "y">>, <<"s", "e", "t">>,
      <<"y", "e", "s">>, <<"n", "o">>, <<"t", "r", "u", "e">>,
      <<"f", "a", "l", "s", "e">> }

\* name_part.startswith(("cmd:", "lib:", ...))
HasRecipePrefix(name_part) ==
    \E i \in 1..Len(RecipePrefixes) : StartsWith(name_part, RecipePrefixes[i])

\* SplitPrefix with the prefix dropped instead of retained.
SplitPrefixDropped(dep_item) ==
    IF HasRecipePrefix(dep_item)
    THEN [prefix |-> <<>>, name_part |-> SplitRest(dep_item, <<":">>)]
    ELSE [prefix |-> <<>>, name_part |-> dep_item]

\* prefix and name_part after the prefix split
SplitPrefix(dep_item) ==
    IF HasRecipePrefix(dep_item)
    THEN [prefix |-> SplitHead(dep_item, <<":">>) \o <<":">>,
          name_part |-> SplitRest(dep_item, <<":">>)]
    ELSE [prefix |-> <<>>, name_part |-> dep_item]

\* for spec in version_specifiers: if spec in name_part: split(spec)[0]
RECURSIVE TruncateAtSpecs(_, _)
TruncateAtSpecs(name_part, specs) ==
    IF specs = <<>> THEN name_part
    ELSE IF Contains(name_part, Head(specs))
    THEN TruncateAtSpecs(SplitHead(name_part, Head(specs)), Tail(specs))
    ELSE TruncateAtSpecs(name_part, Tail(specs))

\* the chain of name_part.replace(variable, "")
RECURSIVE RemoveVariables(_, _)
RemoveVariables(name_part, variables) ==
    IF variables = <<>> THEN name_part
    ELSE IF Contains(name_part, Head(variables))
    THEN RemoveVariables(Remove(name_part, Head(variables)), Tail(variables))
    ELSE RemoveVariables(name_part, Tail(variables))

\* for suffix in suffixes_to_strip: if endswith(suffix): cut it
RECURSIVE StripSuffixes(_, _)
StripSuffixes(name_part, suffixes) ==
    IF suffixes = <<>> THEN name_part
    ELSE IF EndsWith(name_part, Head(suffixes))
    THEN StripSuffixes(DropLast(name_part, Len(Head(suffixes))), Tail(suffixes))
    ELSE StripSuffixes(name_part, Tail(suffixes))

\* name_part as it stands when the filter is applied
CleanName(name_part) ==
    StripSuffixes(
        RemoveVariables(
            SplitHead(TruncateAtSpecs(name_part, version_specifiers), <<" ">>),
            RecipeVariables),
        suffixes_to_strip)

\* IsDependencyName without the test for "haiku".
IsDependencyNameOrHaiku(name_part) ==
    /\ name_part # <<>>
    /\ ~StartsWith(name_part, <<"$">>)
    /\ name_part \notin Placeholders

\* The filter in front of dependencies.add
IsDependencyName(name_part) ==
    /\ name_part # <<>>
    /\ name_part # s_haiku
    /\ ~StartsWith(name_part, <<"$">>)
    /\ name_part \notin Placeholders

\* What a rejected or skipped token yields.
NoItem == [prefix |-> <<>>, basename |-> <<>>]

\* One iteration of "for dep_item in raw_deps": the item added to
\* dependencies, or NoItem when the token is skipped or filtered out.
CleanDep(dep_item) ==
    LET tok == Strip(dep_item)
        sp == SplitPrefix(tok)
        name_part == CleanName(sp.name_part)
    IN  IF tok = <<>> \/ StartsWith(tok, <<"#">>) THEN NoItem
        ELSE IF IsDependencyName(name_part)
             THEN [prefix |-> sp.prefix, basename |-> name_part]
             ELSE NoItem

\* cleaned_dep_with_prefix
Serialized(item) == item.prefix \o item.basename

(***************************************************************************)
(* parse_recipe: the line loop                                             *)
(***************************************************************************)

s_BUILD_REQUIRES ==
    <<"B", "U", "I", "L", "D", "_", "R", "E", "Q", "U", "I", "R", "E", "S", "=">>

s_BUILD_PREREQUIRES ==
    <<"B", "U", "I", "L", "D", "_", "P", "R", "E", "R", "E", "Q", "U", "I", "R",
      "E", "S", "=">>

\* block_type = None
None == <<>>

\* The locals of parse_recipe before the first line is read.
ParserStart ==
    [in_block |-> FALSE, current_block_content |-> <<>>, block_type |-> None,
     dependencies |-> {}]

\* Removal of one pair of surrounding double or single quotes from the
\* stripped block content.
Unquote(processed_content) ==
    IF (StartsWith(processed_content, <<"\"">>) /\ EndsWith(processed_content, <<"\"">>))
       \/ (StartsWith(processed_content, <<"'">>) /\ EndsWith(processed_content, <<"'">>))
    THEN Strip(DropLast(DropFirst(processed_content, 1), 1))
    ELSE processed_content

\* The items the tokens of raw_deps add to dependencies.
CleanedDeps(raw_deps) ==
    {Serialized(CleanDep(raw_deps[i])) :
        i \in {j \in 1..Len(raw_deps) : CleanDep(raw_deps[j]) # NoItem}}

\* Processing of a block that ended inside the line loop.
ProcessBlock(current_block_content) ==
    CleanedDeps(SplitWords(Unquote(Strip(current_block_content))))

\* ContinueBlock that removes the backslash and inserts no space.
ContinueBlockNoSpace(st, line_text) ==
    LET line_text_no_inline_comment == RStrip(SplitHead(line_text, <<"#">>))
    IN  IF EndsWith(line_text_no_inline_comment, <<"\\">>)
        THEN [st EXCEPT !.current_block_content =
                 @ \o Strip(DropLast(line_text_no_inline_comment, 1))]
        ELSE [st EXCEPT !.current_block_content =
                 @ \o Strip(line_text_no_inline_comment),
                        !.in_block = FALSE]

\* The line that continues an open block.
ContinueBlock(st, line_text) ==
    LET line_text_no_inline_comment == RStrip(SplitHead(line_text, <<"#">>))
    IN  IF EndsWith(line_text_no_inline_comment, <<"\\">>)
        THEN [st EXCEPT !.current_block_content =
                 @ \o Strip(DropLast(line_text_no_inline_comment, 1)) \o <<" ">>]
        ELSE [st EXCEPT !.current_block_content =
                 @ \o Strip(line_text_no_inline_comment),
                        !.in_block = FALSE]

\* stripped_line.startswith("BUILD_REQUIRES=") or ("BUILD_PREREQUIRES=")
IsBlockStart(stripped_line) ==
    \/ StartsWith(stripped_line, s_BUILD_REQUIRES)
    \/ StartsWith(stripped_line, s_BUILD_PREREQUIRES)

\* StartBlock that leaves every block open for the next line.
StartBlockLeftOpen(st, stripped_line) ==
    [st EXCEPT !.in_block = TRUE,
               !.block_type = SplitHead(stripped_line, <<"=">>),
               !.current_block_content =
                    Strip(SplitRest(stripped_line, <<"=">>)) \o <<" ">>]

\* The line that starts a block, by the shape of the text after the "=".
StartBlock(st, stripped_line) ==
    LET content_after_equals ==
            RStrip(SplitHead(Strip(SplitRest(stripped_line, <<"=">>)), <<"#">>))
        opened == [st EXCEPT !.in_block = TRUE,
                             !.block_type = SplitHead(stripped_line, <<"=">>),
                             !.current_block_content = <<>>]
        rest == DropFirst(content_after_equals, 1)
    IN  IF content_after_equals = <<"\"">>
        THEN opened
        ELSE IF StartsWith(content_after_equals, <<"\"">>)
                /\ EndsWith(content_after_equals, <<"\\", "\"">>)
        THEN [opened EXCEPT !.current_block_content =
                 Strip(DropLast(DropFirst(content_after_equals, 1), 2)) \o <<" ">>]
        ELSE IF StartsWith(content_after_equals, <<"\"">>)
                /\ EndsWith(content_after_equals, <<"\"">>)
        THEN [opened EXCEPT !.current_block_content =
                 Strip(DropLast(DropFirst(content_after_equals, 1), 1)),
                            !.in_block = FALSE]
        ELSE IF StartsWith(content_after_equals, <<"\"">>)
        THEN [opened EXCEPT !.current_block_content =
                 IF EndsWith(rest, <<"\\">>)
                 THEN Strip(DropLast(rest, 1)) \o <<" ">>
                 ELSE rest \o <<" ">>]
        ELSE IF EndsWith(content_after_equals, <<"\\">>)
        THEN [opened EXCEPT !.current_block_content =
                 Strip(DropLast(content_after_equals, 1)) \o <<" ">>]
        ELSE [opened EXCEPT !.current_block_content = content_after_equals,
                            !.in_block = FALSE]

\* The end of the loop body: a block that is complete is processed and the
\* accumulator reset.
FinishLine(st) ==
    IF ~st.in_block /\ Strip(st.current_block_content) # <<>>
    THEN [st EXCEPT !.dependencies = @ \cup ProcessBlock(st.current_block_content),
                    !.current_block_content = <<>>,
                    !.block_type = None]
    ELSE st

\* ParseLine that takes every assignment for the start of a block.
ParseLineAnyAssignment(st, line_text) ==
    LET stripped_line == Strip(line_text)
    IN  IF (StartsWith(stripped_line, <<"#">>) \/ stripped_line = <<>>)
           /\ ~st.in_block
        THEN st
        ELSE IF st.in_block
        THEN FinishLine(ContinueBlock(st, line_text))
        ELSE IF Contains(stripped_line, <<"=">>)
        THEN FinishLine(StartBlock(st, stripped_line))
        ELSE FinishLine(st)

\* One iteration of "for line_number, line_text in enumerate(f, 1)".
ParseLine(st, line_text) ==
    LET stripped_line == Strip(line_text)
    IN  IF (StartsWith(stripped_line, <<"#">>) \/ stripped_line = <<>>)
           /\ ~st.in_block
        THEN st
        ELSE IF st.in_block
        THEN FinishLine(ContinueBlock(st, line_text))
        ELSE IF IsBlockStart(stripped_line)
        THEN FinishLine(StartBlock(st, stripped_line))
        ELSE FinishLine(st)

\* FlushAtEOF that returns what the loop collected.
FlushAtEOFDropped(st) == st.dependencies

\* The code after the loop: the content of a block still open at the end of
\* the file is processed; the value is what parse_recipe returns.
FlushAtEOF(st) ==
    LET unquoted == Unquote(Strip(st.current_block_content))
        processed_content ==
            IF StartsWith(st.current_block_content, <<"\"">>)
               /\ EndsWith(unquoted, <<"\"">>)
            THEN Strip(DropLast(unquoted, 1))
            ELSE unquoted
    IN  IF st.in_block /\ Strip(st.current_block_content) # <<>>
        THEN st.dependencies \cup CleanedDeps(SplitWords(processed_content))
        ELSE st.dependencies

\* The locals after the lines f[1..n] have been read.
RECURSIVE ParserAfter(_, _)
ParserAfter(f, n) ==
    IF n = 0 THEN ParserStart ELSE ParseLine(ParserAfter(f, n - 1), f[n])

\* parse_recipe on a readable file with the lines f.
parse_recipe(f) == FlushAtEOF(ParserAfter(f, Len(f)))

(***************************************************************************)
(* normalize_package_name_for_find                                         *)
(***************************************************************************)

\* re.sub(r"^(a|b|...)", "", s): the first alternative that matches at the
\* start of s is removed.
RECURSIVE StripLeading(_, _)
StripLeading(s, alternatives) ==
    IF alternatives = <<>> THEN s
    ELSE IF StartsWith(s, Head(alternatives))
         THEN DropFirst(s, Len(Head(alternatives)))
         ELSE StripLeading(s, Tail(alternatives))

s_python == <<"p", "y", "t", "h", "o", "n">>
s_openssl == <<"o", "p", "e", "n", "s", "s", "l">>
s_zlib == <<"z", "l", "i", "b">>
s_icu == <<"i", "c", "u">>
s_boost == <<"b", "o", "o", "s", "t">>
s_openjdk == <<"o", "p", "e", "n", "j", "d", "k">>
s_glib == <<"g", "l", "i", "b">>

\* normalize_package_name_for_find that leaves the name as given.
normalize_exact(dep_name) == dep_name

normalize_package_name_for_find(dep_name) ==
    LET base_name == StripLeading(dep_name, RecipePrefixes)
    IN  IF dep_name = <<>> THEN <<>>
        ELSE IF StartsWith(base_name, s_python \o <<"3">>)
                \/ StartsWith(base_name, s_python \o <<"2">>) THEN s_python
        ELSE IF StartsWith(base_name, s_openssl \o <<"3">>)
                \/ StartsWith(base_name, s_openssl \o <<"1">>) THEN s_openssl
        ELSE IF StartsWith(base_name, s_zlib \o <<"1">>) THEN s_zlib
        ELSE IF StartsWith(base_name, s_icu) /\ IsDigit(DropFirst(base_name, 3))
                /\ base_name # s_icu THEN s_icu
        ELSE IF StartsWith(base_name, s_boost) /\ IsDigit(DropFirst(base_name, 5))
             THEN s_boost
        ELSE IF StartsWith(base_name, s_openjdk) /\ IsDigit(DropFirst(base_name, 7))
             THEN s_openjdk
        ELSE IF StartsWith(base_name, s_glib \o <<"2">>) THEN s_glib
        ELSE base_name

(***************************************************************************)
(* The HaikuPorts checkout the script runs in                              *)
(***************************************************************************)

s_pkgA == <<"p", "k", "g", "A">>
s_pkgB == <<"p", "k", "g", "B">>
s_gcc == <<"g", "c", "c">>
s_dev_libs == <<"d", "e", "v", "-", "l", "i", "b", "s">>
s_sys_devel == <<"s", "y", "s", "-", "d", "e", "v", "e", "l">>

\* os.listdir(HAIKUPORTS_ROOT), in the order the listing yields the entries.
RootListing ==
    << [name |-> <<"s", "c", "r", "i", "p", "t", "s">>, isdir |-> TRUE],
       [name |-> <<"g", "e", "t", "-", "d", "e", "p", "s", ".", "s", "h">>,
        isdir |-> FALSE],
       [name |-> s_dev_libs, isdir |-> TRUE],
       [name |-> s_sys_devel, isdir |-> TRUE] >>

\* The package directories of the checkout, each with os.listdir of it.
PackageDirs ==
    { [category |-> s_dev_libs, package |-> s_pkgA,
       files |-> << <<"p", "k", "g", "A", "-", "1", ".", "0", ".", "r", "e",
                      "c", "i", "p", "e">> >>],
      [category |-> s_dev_libs, package |-> s_gcc,
       files |-> << <<"n", "o", "t", "e", "s", ".", "t", "x", "t">> >>],
      [category |-> s_sys_devel, package |-> s_pkgB,
       files |-> << <<"p", "k", "g", "b", "-", "2", ".", "1", ".", "r", "e",
                      "c", "i", "p", "e">>,
                    <<"P", "k", "g", "B", "-", "2", ".", "0", ".", "r", "e",
                      "c", "i", "p", "e">> >>],
      [category |-> s_sys_devel, package |-> s_gcc,
       files |-> << <<"n", "o", "t", "e", "s", ".", "t", "x", "t">>,
                    <<"g", "c", "c", "_", "b", "o", "o", "t", "s", "t", "r",
                      "a", "p", "-", "1", "3", ".", "r", "e", "c", "i", "p",
                      "e">>,
                    <<"g", "c", "c", "-", "1", "3", ".", "r", "e", "c", "i",
                      "p", "e">> >>],
      [category |-> s_sys_devel, package |-> s_pkgA,
       files |-> << <<"p", "k", "g", "A", "-", "2", ".", "0", ".", "r", "e",
                      "c", "i", "p", "e">> >>] }

\* The characters of file names, in code point order.
CodePointOrder ==
    <<"-", ".", "0", "1", "2", "3", "4", "5", "6", "7", "8", "9",
      "A", "B", "C", "D", "E", "F", "G", "H", "I", "J", "K", "L", "M",
      "N", "O", "P", "Q", "R", "S", "T", "U", "V", "W", "X", "Y", "Z", "_",
      "a", "b", "c", "d", "e", "f", "g", "h", "i", "j", "k", "l", "m",
      "n", "o", "p", "q", "r", "s", "t", "u", "v", "w", "x", "y", "z">>

\* ord(c)
Ord(c) == CHOOSE i \in 1..Len(CodePointOrder) : CodePointOrder[i] = c

\* a <= b for str
StrLeq(a, b) ==
    LET differ == {i \in 1..Len(a) : i <= Len(b) /\ a[i] # b[i]}
        first == CHOOSE i \in differ : \A j \in differ : i <= j
    IN  IF differ = {} THEN Len(a) <= Len(b)
        ELSE Ord(a[first]) < Ord(b[first])

\* sorted(names)[0]
SortedFirst(names) ==
    CHOOSE i \in 1..Len(names) :
        /\ \A j \in 1..Len(names) : StrLeq(names[i], names[j])
        /\ \A j \in 1..(i - 1) : names[j] # names[i]

\* [f for f in os.listdir(package_dir_path) if f.endswith(".recipe")]
RecipeFilesIn(files) ==
    SelectSeq(files, LAMBDA f : EndsWith(f, <<".", "r", "e", "c", "i", "p", "e">>))

\* dynamically_found_categories
FoundCategories(listing) ==
    LET dirs == SelectSeq(listing, LAMBDA entry :
                    entry.isdir /\ Contains(entry.name, <<"-">>))
    IN  [i \in 1..Len(dirs) |-> dirs[i].name]

\* find_recipe_file returns None
NoRecipe == <<>>

\* RecipeInDir without the priority of a file that starts with the
\* package name.
RecipeInDirSorted(dir, package_name) ==
    LET recipe_files_in_dir == RecipeFilesIn(dir.files)
    IN  IF recipe_files_in_dir = <<>> THEN NoRecipe
        ELSE <<dir.category, package_name,
               recipe_files_in_dir[SortedFirst(recipe_files_in_dir)]>>

\* The recipe chosen inside one package directory, NoRecipe when the
\* directory holds no recipe file.
RecipeInDir(dir, package_name) ==
    LET recipe_files_in_dir == RecipeFilesIn(dir.files)
        specific == {i \in 1..Len(recipe_files_in_dir) :
                        StartsWith(recipe_files_in_dir[i], package_name)}
        first == CHOOSE i \in specific : \A j \in specific : i <= j
    IN  IF recipe_files_in_dir = <<>> THEN NoRecipe
        ELSE IF specific # {}
        THEN <<dir.category, package_name, recipe_files_in_dir[first]>>
        ELSE <<dir.category, package_name,
               recipe_files_in_dir[SortedFirst(recipe_files_in_dir)]>>

\* The loop over the categories, in listing order.
RECURSIVE FindInCategories(_, _)
FindInCategories(categories, package_name) ==
    LET dirs == {d \in PackageDirs :
                    d.category = Head(categories) /\ d.package = package_name}
        found == RecipeInDir(CHOOSE d \in dirs : TRUE, package_name)
    IN  IF categories = <<>> THEN NoRecipe
        ELSE IF dirs # {} /\ found # NoRecipe THEN found
        ELSE FindInCategories(Tail(categories), package_name)

\* find_recipe_file: the path (category, package directory, file) or
\* NoRecipe.
find_recipe_file(package_name) ==
    FindInCategories(FoundCategories(RootListing), package_name)

(***************************************************************************)
(* Bounds and inputs                                                       *)
(***************************************************************************)

\* The most requirement tokens one recipe of the corpus lists.
MaxDeps == 2

\* The most package names given on the command line.
MaxInitial == 2

\* The deepest nesting of resolve_dependencies_recursive the interpreter
\* allows.
RecursionLimit == 4

\* The most architecture/build suffixes appended to one raw token.
MaxSuffixes == 2

\* The most tokens in one requirement block given to the parser.
MaxTokens == 2

\* The requirement tokens the recipes of the corpus are written with.
DepTokens ==
    << s_pkgA,
       <<"l", "i", "b", ":", "p", "k", "g", "B">>,
       <<"c", "m", "d", ":", "g", "c", "c">>,
       s_gcc,
       <<"h", "p", "k", "g", ":", "z", "l", "i", "b", ">", "=", "1", ".", "2">> >>

\* The token choices of one recipe.
DepChoices == {ds \in SUBSET (1..Len(DepTokens)) : Cardinality(ds) <= MaxDeps}

\* The package names a user may give.
InitialNames == {s_pkgA, s_gcc, <<"c", "m", "d", ":", "g", "c", "c">>, s_zlib}

\* The elements of a set of numbers, in ascending order.
RECURSIVE Ascending(_)
Ascending(ns) ==
    IF ns = {} THEN <<>>
    ELSE LET m == CHOOSE n \in ns : \A k \in ns : n <= k
         IN  <<m>> \o Ascending(ns \ {m})

\* sep.join(words)
RECURSIVE Join(_, _)
Join(words, sep) ==
    IF words = <<>> THEN <<>>
    ELSE IF Len(words) = 1 THEN Head(words)
    ELSE Head(words) \o sep \o Join(Tail(words), sep)

\* The tokens chosen by ds, in the order of DepTokens.
ChosenTokens(ds) == [i \in 1..Cardinality(ds) |-> DepTokens[Ascending(ds)[i]]]

\* The text of a recipe that requires the tokens ds: the first one in
\* BUILD_REQUIRES, the others in BUILD_PREREQUIRES, each a quoted one-line
\* block.
RecipeLines(ds) ==
    LET toks == ChosenTokens(ds)
    IN  << <<"#", " ", "r", "e", "c", "i", "p", "e">>,
           s_BUILD_REQUIRES \o <<"\"">>
               \o (IF toks = <<>> THEN <<>> ELSE Head(toks)) \o <<"\"">>,
           <<>>,
           s_BUILD_PREREQUIRES \o <<"\"">>
               \o (IF toks = <<>> THEN <<>> ELSE Join(Tail(toks), <<" ">>))
               \o <<"\"">> >>

\* The package directories whose recipe text varies with the corpus.
VariablePackages == {s_pkgA, s_pkgB}

\* The recipe of gcc, the same in every corpus: it requires the haiku
\* development package, itself, and pkgA.
GccRecipeLines ==
    << s_BUILD_REQUIRES
           \o <<"\"", "h", "a", "i", "k", "u", "_", "d", "e", "v", "e", "l", " ",
                "c", "m", "d", ":", "g", "c", "c", "$", "s", "e", "c", "o", "n",
                "d", "a", "r", "y", "A", "r", "c", "h", "S", "u", "f", "f", "i",
                "x", "\"">>,
       s_BUILD_PREREQUIRES \o <<"\"">> \o s_pkgA \o <<"\"">> >>

\* The corpora: the token choice of each variable recipe.
Corpora == [VariablePackages -> DepChoices]

\* The lines of the file at recipe_path in a corpus.
RecipeText(corpus, recipe_path) ==
    IF recipe_path[2] \in VariablePackages
    THEN RecipeLines(corpus[recipe_path[2]])
    ELSE GccRecipeLines

\* direct_deps = parse_recipe(recipe_path)
DirectDeps(corpus, recipe_path) == parse_recipe(RecipeText(corpus, recipe_path))

(***************************************************************************)
(* parse_recipe: errors raised while the file is opened and read           *)
(***************************************************************************)

\* The file opens and every line of it can be read.
NoFault == [kind |-> "none", at |-> 0]

\* The errors open() raises.
OpenErrors == {"FileNotFoundError", "PermissionError", "IsADirectoryError"}

\* The read errors of a file with the given lines: open() fails, or the
\* text cannot be decoded, which the loop meets after "at" lines were handed
\* to it (none when the bytes are in the first buffer read).
Faults(lines) ==
    {NoFault}
    \cup {[kind |-> k, at |-> 0] : k \in OpenErrors}
    \cup {[kind |-> "UnicodeDecodeError", at |-> n] : n \in 0..(Len(lines) - 1)}

\* The except clauses of parse_recipe, for an error of the given kind raised
\* after lines_read iterations of the loop. The second clause formats
\* line_number into its message: the name is bound by the first iteration
\* only, before it the handler itself raises UnboundLocalError.
HandleReadError(kind, lines_read) ==
    IF kind = "FileNotFoundError"
    THEN [outcome |-> "returned", errors |-> {"not found"}]
    ELSE IF lines_read = 0
    THEN [outcome |-> "raised", errors |-> {}]
    ELSE [outcome |-> "returned", errors |-> {"error parsing"}]

(***************************************************************************)
(* State                                                                   *)
(***************************************************************************)

VARIABLES
    reqs,                           \* the corpus: package directory -> token choice
    initial_packages_as_specified,  \* main: set(args.package_names)
    pending,                        \* initial names the for loop of main has yet to take
    all_found_dependencies,         \* main: the accumulated dependencies
    processed_lookup_tracker,       \* main: the lookup names already processed
    stack,                          \* the active calls of resolve_dependencies_recursive
    parse_calls,                    \* recipe path -> number of parse_recipe calls on it
    final_dependencies_to_install,  \* main: the filtered result
    warnings,                       \* the resolver's messages on stderr: (kind, lookup name)
    pc,                             \* where main is
    recipe_lines,                   \* parse_recipe: the lines of the file being read
    line_number,                    \* parse_recipe: lines read so far
    parser,                         \* parse_recipe: in_block, current_block_content, ...
    returned,                       \* parse_recipe: the set returned
    parse_pc,                       \* where parse_recipe is
    block_tokens,                   \* the tokens the file was written from
    block_form,                     \* the layout the file was written in
    fault,                          \* the read error the file raises, and after how many lines
    parse_errors,                   \* parse_recipe: the diagnostics printed to stderr
    raw_token,                      \* the token given to the cleaning
    item,                           \* its cleaned item
    item_again,                     \* the item of cleaning the serialized item again
    item_lookup_name,               \* the directory name the item is looked up under
    norm_pc                         \* where the cleaning is

resolver_vars ==
    <<reqs, initial_packages_as_specified, pending, all_found_dependencies,
      processed_lookup_tracker, stack, parse_calls,
      final_dependencies_to_install, warnings, pc>>

parser_vars ==
    <<recipe_lines, line_number, parser, returned, parse_pc, block_tokens,
      block_form, fault, parse_errors>>

norm_vars == <<raw_token, item, item_again, item_lookup_name, norm_pc>>

vars == <<resolver_vars, parser_vars, norm_vars>>

\* No resolution run.
ResolverIdle ==
    /\ reqs = <<>>
    /\ initial_packages_as_specified = {}
    /\ pending = {}
    /\ all_found_dependencies = {}
    /\ processed_lookup_tracker = {}
    /\ stack = <<>>
    /\ parse_calls = <<>>
    /\ final_dependencies_to_install = {}
    /\ warnings = {}
    /\ pc = "idle"

\* No file being parsed.
ParserIdle ==
    /\ recipe_lines = <<>>
    /\ line_number = 0
    /\ parser = ParserStart
    /\ returned = {}
    /\ parse_pc = "idle"
    /\ block_tokens = <<>>
    /\ block_form = "none"
    /\ fault = NoFault
    /\ parse_errors = {}

\* No token being cleaned.
NormIdle ==
    /\ raw_token = <<>>
    /\ item = NoItem
    /\ item_again = NoItem
    /\ item_lookup_name = <<>>
    /\ norm_pc = "idle"

(***************************************************************************)
(* resolve_dependencies_recursive and main                                 *)
(***************************************************************************)

\* TrackerKey with the name as given by the caller.
TrackerKeyAsGiven(package_name_from_caller, lookup_name) == package_name_from_caller

\* The name under which a call is recorded in, and looked up in,
\* processed_lookup_tracker.
TrackerKey(package_name_from_caller, lookup_name) == lookup_name

\* MarkProcessed that records nothing.
MarkProcessedDropped(tracker, lookup_name) == tracker

\* processed_lookup_tracker.add(lookup_name)
MarkProcessed(tracker, lookup_name) == tracker \cup {lookup_name}

\* parse_calls after one more parse_recipe(recipe_path)
CountParse(calls, recipe_path) ==
    IF recipe_path \in DOMAIN calls
    THEN [calls EXCEPT ![recipe_path] = @ + 1]
    ELSE calls @@ (recipe_path :> 1)

\* A call resolve_dependencies_recursive(package_name_from_caller, ...) up to
\* its for loop: the base cases return at once, a lookup name without recipe
\* is marked and returns, a recipe found is parsed and the call stays active
\* with direct_deps to iterate over.
EnterCall(package_name_from_caller, stk, tracker, calls, corpus) ==
    LET lookup_name == normalize_package_name_for_find(package_name_from_caller)
        key == TrackerKey(package_name_from_caller, lookup_name)
        recipe_path == find_recipe_file(lookup_name)
        direct_deps == DirectDeps(corpus, recipe_path)
        same == [stack |-> stk, tracker |-> tracker, calls |-> calls,
                 printed |-> {}, overflow |-> FALSE]
    IN  IF lookup_name = <<>> \/ lookup_name = s_haiku THEN same
        ELSE IF key \in tracker THEN same
        ELSE IF Len(stk) >= RecursionLimit THEN [same EXCEPT !.overflow = TRUE]
        ELSE IF recipe_path # NoRecipe
        THEN [stack |-> Append(stk,
                  [package_name_from_caller |-> package_name_from_caller,
                   lookup_name |-> lookup_name,
                   recipe_path |-> recipe_path,
                   direct_deps |-> direct_deps]),
              tracker |-> MarkProcessed(tracker, key),
              calls |-> CountParse(calls, recipe_path),
              printed |-> IF direct_deps = {}
                             /\ package_name_from_caller = lookup_name
                          THEN {<<"no dependencies", lookup_name>>}
                          ELSE {},
              overflow |-> FALSE]
        ELSE [same EXCEPT !.tracker = MarkProcessed(tracker, key),
                          !.printed = {<<"no recipe", lookup_name>>}]

\* The state after a call was entered.
Entered(e) ==
    /\ stack' = e.stack
    /\ processed_lookup_tracker' = e.tracker
    /\ parse_calls' = e.calls
    /\ warnings' = warnings \cup e.printed
    /\ pc' = IF e.overflow THEN "RecursionError" ELSE pc

\* main: one iteration of "for pkg_spec_name in initial_packages_as_specified".
StartInitial ==
    /\ pc = "resolving"
    /\ stack = <<>>
    /\ \E pkg_spec_name \in pending :
        /\ pending' = pending \ {pkg_spec_name}
        /\ Entered(EnterCall(pkg_spec_name, stack, processed_lookup_tracker,
                             parse_calls, reqs))
    /\ UNCHANGED <<reqs, initial_packages_as_specified, all_found_dependencies,
                   final_dependencies_to_install>>
    /\ UNCHANGED <<parser_vars, norm_vars>>

\* IsSelfDependency that also skips what has been processed already.
IsSelfDependencyOrProcessed(dep_name_with_prefix, lookup_name) ==
    \/ normalize_package_name_for_find(dep_name_with_prefix) = lookup_name
    \/ normalize_package_name_for_find(dep_name_with_prefix)
            \in processed_lookup_tracker

\* IsSelfDependency without the test.
IsSelfDependencyNever(dep_name_with_prefix, lookup_name) == FALSE

\* The test that skips a requirement leading back to the recipe itself.
IsSelfDependency(dep_name_with_prefix, lookup_name) ==
    normalize_package_name_for_find(dep_name_with_prefix) = lookup_name

\* AddFound that keeps only the requirements a recipe is found for.
AddFoundIfRecipe(found, dep_name_with_prefix) ==
    IF find_recipe_file(normalize_package_name_for_find(dep_name_with_prefix))
            # NoRecipe
    THEN found \cup {dep_name_with_prefix}
    ELSE found

\* AddFound that overwrites the set with the requirement.
AddFoundOverwriting(found, dep_name_with_prefix) == {dep_name_with_prefix}

\* all_found_dependencies.add(dep_name_with_prefix)
AddFound(found, dep_name_with_prefix) == found \cup {dep_name_with_prefix}

\* NextDep without the recursive call.
NextDepWithoutCall ==
    /\ pc = "resolving"
    /\ stack # <<>>
    /\ LET top == stack[Len(stack)]
       IN  \E dep_name_with_prefix \in top.direct_deps :
            /\ stack' = [stack EXCEPT ![Len(stack)].direct_deps =
                            @ \ {dep_name_with_prefix}]
            /\ all_found_dependencies' =
                    IF IsSelfDependency(dep_name_with_prefix, top.lookup_name)
                    THEN all_found_dependencies
                    ELSE AddFound(all_found_dependencies, dep_name_with_prefix)
    /\ UNCHANGED <<processed_lookup_tracker, parse_calls, warnings, pc>>
    /\ UNCHANGED <<reqs, initial_packages_as_specified, pending,
                   final_dependencies_to_install>>
    /\ UNCHANGED <<parser_vars, norm_vars>>

\* One iteration of "for dep_name_with_prefix in direct_deps" in the
\* innermost active call, with the recursive call it makes.
NextDep ==
    /\ pc = "resolving"
    /\ stack # <<>>
    /\ LET top == stack[Len(stack)]
       IN  \E dep_name_with_prefix \in top.direct_deps :
            LET rest == [stack EXCEPT ![Len(stack)].direct_deps =
                            @ \ {dep_name_with_prefix}]
            IN  IF IsSelfDependency(dep_name_with_prefix, top.lookup_name)
                THEN /\ stack' = rest
                     /\ UNCHANGED <<all_found_dependencies,
                                    processed_lookup_tracker, parse_calls,
                                    warnings, pc>>
                ELSE /\ all_found_dependencies' =
                            AddFound(all_found_dependencies, dep_name_with_prefix)
                     /\ Entered(EnterCall(dep_name_with_prefix, rest,
                                          processed_lookup_tracker, parse_calls,
                                          reqs))
    /\ UNCHANGED <<reqs, initial_packages_as_specified, pending,
                   final_dependencies_to_install>>
    /\ UNCHANGED <<parser_vars, norm_vars>>

\* The innermost active call has iterated over all of direct_deps and
\* returns.
Return ==
    /\ pc = "resolving"
    /\ stack # <<>>
    /\ stack[Len(stack)].direct_deps = {}
    /\ stack' = SubSeq(stack, 1, Len(stack) - 1)
    /\ UNCHANGED <<reqs, initial_packages_as_specified, pending,
                   all_found_dependencies, processed_lookup_tracker,
                   parse_calls, final_dependencies_to_install, warnings, pc>>
    /\ UNCHANGED <<parser_vars, norm_vars>>

\* The prefixes main strips to get the base name of a dependency.
FilterPrefixes ==
    << <<"c", "m", "d", ":">>, <<"l", "i", "b", ":">>,
       <<"d", "e", "v", "e", "l", ":">> >>

\* BaseNameOfDep with the prefix left on.
BaseNameOfDepUnstripped(dep_with_prefix) == dep_with_prefix

\* base_name_of_dep
BaseNameOfDep(dep_with_prefix) == StripLeading(dep_with_prefix, FilterPrefixes)

\* FilterInitial that excludes nothing.
FilterInitialNothing(found, initial) == found

\* The filtering loop of main.
FilterInitial(found, initial) ==
    {dep_with_prefix \in found :
        ~(BaseNameOfDep(dep_with_prefix) \in initial
          \/ dep_with_prefix \in initial)}

\* main after the resolution loop: the result is filtered and printed.
Filter ==
    /\ pc = "resolving"
    /\ stack = <<>>
    /\ pending = {}
    /\ final_dependencies_to_install' =
            FilterInitial(all_found_dependencies, initial_packages_as_specified)
    /\ pc' = "done"
    /\ UNCHANGED <<reqs, initial_packages_as_specified, pending,
                   all_found_dependencies, processed_lookup_tracker, stack,
                   parse_calls, warnings>>
    /\ UNCHANGED <<parser_vars, norm_vars>>

\* main up to the resolution loop, for a corpus and package names.
Init ==
    /\ reqs \in Corpora
    /\ initial_packages_as_specified \in
            {ns \in SUBSET InitialNames : ns # {} /\ Cardinality(ns) <= MaxInitial}
    /\ pending = initial_packages_as_specified
    /\ all_found_dependencies = {}
    /\ processed_lookup_tracker = {}
    /\ stack = <<>>
    /\ parse_calls = <<>>
    /\ final_dependencies_to_install = {}
    /\ warnings = {}
    /\ pc = "resolving"
    /\ ParserIdle
    /\ NormIdle

Next == StartInitial \/ NextDep \/ Return \/ Filter

Spec == Init /\ [][Next]_vars

\* A step of Next can be taken, and changes the state, exactly while main is
\* in its resolution loop: with no active call StartInitial or Filter is
\* possible, with one NextDep or Return.
NextEnabled == pc = "resolving"

\* The script is one sequential process: a step that can be taken is taken.
\* This is weak fairness of Next with its enabling condition written out.
FairSpec == Spec /\ (<>[]NextEnabled => []<><<Next>>_vars)

(***************************************************************************)
(* parse_recipe run line by line on one file                               *)
(***************************************************************************)

s_foo == <<"f", "o", "o">>
s_bar == <<"b", "a", "r">>

\* The tokens the requirement block of the file is written with.
ParseTokens ==
    { s_foo, s_bar,
      <<"l", "i", "b", ":", "o", "p", "e", "n", "s", "s", "l", ">", "=", "1",
        ".", "1">>,
      <<"c", "m", "d", ":", "g", "c", "c", "_", "x", "8", "6">> }

TokenLists == UNION {[1..n -> ParseTokens] : n \in 1..MaxTokens}

\* The layouts of the requirement block: quoted on one line; one token per
\* line with a continuation backslash at the end of every line but the last;
\* one token per line between a line with the opening quote and a line with
\* the closing quote; one token per line, each line ending with an escaped
\* quote, before a line with the closing quote; unquoted on one line; and,
\* as the last lines of the file, one token per line with a backslash at the
\* end of every line, or one line with the opening quote only; and unquoted,
\* one token per line with a continuation backslash at the end of every line
\* but the last.
BlockForms ==
    {"single", "continued", "lines", "escaped", "unquoted", "unterminated",
     "open quote", "unquoted continued"}

\* The layouts after which the file ends with the block still open.
OpenAtEOF == {"unterminated", "open quote"}

\* BUILD_REQUIRES="t1 t2 ... tn"
SingleLine(toks) ==
    << s_BUILD_REQUIRES \o <<"\"">> \o Join(toks, <<" ">>) \o <<"\"">> >>

\* BUILD_REQUIRES="t1 \
\*   t2 \
\*   tn"
ContinuedLines(toks) ==
    [i \in 1..Len(toks) |->
        (IF i = 1 THEN s_BUILD_REQUIRES \o <<"\"">> ELSE <<" ", " ">>)
        \o toks[i]
        \o (IF i < Len(toks) THEN <<" ", "\\">> ELSE <<"\"">>)]

\* BUILD_REQUIRES="
\*     t1
\*     tn
\*     "
QuotedLines(toks) ==
    << s_BUILD_REQUIRES \o <<"\"">> >>
    \o [i \in 1..Len(toks) |-> <<"\t">> \o toks[i]]
    \o << <<"\t", "\"">> >>

\* BUILD_REQUIRES="t1 \"
\*   tn \"
\* "
EscapedLines(toks) ==
    [i \in 1..Len(toks) |->
        (IF i = 1 THEN s_BUILD_REQUIRES \o <<"\"">> ELSE <<" ", " ">>)
        \o toks[i] \o <<" ", "\\", "\"">>]
    \o << <<"\"">> >>

\* BUILD_REQUIRES=t1 t2 ... tn
UnquotedLine(toks) == << s_BUILD_REQUIRES \o Join(toks, <<" ">>) >>

\* BUILD_REQUIRES="t1 \
\*   tn \
UnterminatedLines(toks) ==
    [i \in 1..Len(toks) |->
        (IF i = 1 THEN s_BUILD_REQUIRES \o <<"\"">> ELSE <<" ", " ">>)
        \o toks[i] \o <<" ", "\\">>]

\* BUILD_REQUIRES="t1 t2 ... tn
OpenQuoteLine(toks) ==
    << s_BUILD_REQUIRES \o <<"\"">> \o Join(toks, <<" ">>) >>

\* BUILD_REQUIRES=t1 \
\*   t2 \
\*   tn
UnquotedContinuedLines(toks) ==
    [i \in 1..Len(toks) |->
        (IF i = 1 THEN s_BUILD_REQUIRES ELSE <<" ", " ">>)
        \o toks[i]
        \o (IF i < Len(toks) THEN <<" ", "\\">> ELSE <<>>)]

\* The lines of the block in a layout.
BlockLines(form, toks) ==
    CASE form = "single" -> SingleLine(toks)
      [] form = "continued" -> ContinuedLines(toks)
      [] form = "lines" -> QuotedLines(toks)
      [] form = "escaped" -> EscapedLines(toks)
      [] form = "unquoted" -> UnquotedLine(toks)
      [] form = "unterminated" -> UnterminatedLines(toks)
      [] form = "open quote" -> OpenQuoteLine(toks)
      [] form = "unquoted continued" -> UnquotedContinuedLines(toks)

\* The line of the block's assignment: the third of the file.
BlockStartLine == 3

\* The lines of the file: a comment, a PROVIDES assignment, the block and,
\* unless the file ends inside the block, a blank line and another
\* assignment.
Layout(form, toks) ==
    << <<"#", " ", "r", "e", "c", "i", "p", "e">>,
       <<"P", "R", "O", "V", "I", "D", "E", "S", "=", "\"", "f", "o", "o", "\"">> >>
    \o BlockLines(form, toks)
    \o (IF form \in OpenAtEOF THEN <<>>
        ELSE << <<>>,
                <<"S", "O", "U", "R", "C", "E", "_", "D", "I", "R", "=", "\"",
                 "x", "\"">> >>)

\* parse_recipe is called on a file.
ParseInit ==
    /\ block_tokens \in TokenLists
    /\ block_form \in BlockForms
    /\ recipe_lines = Layout(block_form, block_tokens)
    /\ fault \in Faults(recipe_lines)
    /\ parse_errors = {}
    /\ line_number = 0
    /\ parser = ParserStart
    /\ returned = {}
    /\ parse_pc = "reading"
    /\ ResolverIdle
    /\ NormIdle

\* The error of the file is raised now: on open() or on the read of the
\* line after the last one handed to the loop.
FaultNow == fault.kind # "none" /\ line_number = fault.at

\* One iteration of the line loop.
ReadLine ==
    /\ parse_pc = "reading"
    /\ ~FaultNow
    /\ line_number < Len(recipe_lines)
    /\ line_number' = line_number + 1
    /\ parser' = ParseLine(parser, recipe_lines[line_number + 1])
    /\ UNCHANGED <<recipe_lines, returned, parse_pc, block_tokens, block_form,
                   fault, parse_errors>>
    /\ UNCHANGED <<resolver_vars, norm_vars>>

\* The file is exhausted: the open block, if any, is processed and
\* parse_recipe returns.
EndOfFile ==
    /\ parse_pc = "reading"
    /\ ~FaultNow
    /\ line_number = Len(recipe_lines)
    /\ returned' = FlushAtEOF(parser)
    /\ parse_pc' = "returned"
    /\ UNCHANGED <<recipe_lines, line_number, parser, block_tokens, block_form,
                   fault, parse_errors>>
    /\ UNCHANGED <<resolver_vars, norm_vars>>

\* open() or the read of the next line raises: the except clauses run.
ReadFails ==
    /\ parse_pc = "reading"
    /\ FaultNow
    /\ LET h == HandleReadError(fault.kind, line_number)
       IN  /\ parse_pc' = h.outcome
           /\ parse_errors' = h.errors
           /\ returned' = {}
    /\ UNCHANGED <<recipe_lines, line_number, parser, block_tokens, block_form,
                   fault>>
    /\ UNCHANGED <<resolver_vars, norm_vars>>

ParseNext == ReadLine \/ EndOfFile \/ ReadFails

ParseSpec == ParseInit /\ [][ParseNext]_vars

(***************************************************************************)
(* The cleaning applied to one token, and again to its result              *)
(***************************************************************************)

TokPrefixes ==
    { <<>>, <<"c", "m", "d", ":">>, <<"l", "i", "b", ":">>,
      <<"h", "p", "k", "g", ":">>, <<"p", "a", "c", "k", "a", "g", "e", ":">> }

TokBases ==
    { <<>>, s_openssl, <<"p", "y", "t", "h", "o", "n", "3", ".", "9">>, s_haiku,
      <<"$", "a", "r", "c", "h">>, <<"n", "o", "n", "e">>, <<"$", "x">>,
      s_openssl \o <<"1", ".", "1">>, s_openssl \o <<"3", ".", "0">>,
      s_zlib \o <<"1">>, s_icu \o <<"6", "9">>, s_icu,
      s_boost \o <<"1", ".", "8", "3">>, s_boost,
      s_openjdk \o <<"1", "1">>, s_glib \o <<"2", ".", "7", "8">> }

TokSuffixes ==
    { <<"_", "x", "8", "6">>, <<"_", "h", "o", "s", "t">>,
      <<"_", "x", "8", "6", "_", "g", "c", "c", "2">>,
      <<"_", "d", "e", "v", "e", "l">>, <<"_", "x", "8", "6", "_", "6", "4">> }

TokVersions ==
    { <<>>, <<">", "=", "1", ".", "1">>, <<"=", "=", "1", ".", "2", ".", "3">>,
      <<"=", "1", ".", "0">> }

SuffixSeqs == UNION {[1..n -> TokSuffixes] : n \in 0..MaxSuffixes}

\* The raw tokens: a prefix, a name, some suffixes, a version constraint.
RawTokens ==
    {p \o b \o Join(ss, <<>>) \o v :
        p \in TokPrefixes, b \in TokBases, ss \in SuffixSeqs, v \in TokVersions}

NormInit ==
    /\ raw_token \in RawTokens
    /\ item = NoItem
    /\ item_again = NoItem
    /\ item_lookup_name = <<>>
    /\ norm_pc = "start"
    /\ ResolverIdle
    /\ ParserIdle

\* The token is cleaned.
Clean ==
    /\ norm_pc = "start"
    /\ item' = CleanDep(raw_token)
    /\ norm_pc' = "cleaned"
    /\ UNCHANGED <<raw_token, item_again, item_lookup_name>>
    /\ UNCHANGED <<resolver_vars, parser_vars>>

\* The item that was added is given to the cleaning as a token.
CleanAgain ==
    /\ norm_pc = "cleaned"
    /\ item # NoItem
    /\ item_again' = CleanDep(Serialized(item))
    /\ norm_pc' = "recleaned"
    /\ UNCHANGED <<raw_token, item, item_lookup_name>>
    /\ UNCHANGED <<resolver_vars, parser_vars>>

\* The item that was added is given to resolve_dependencies_recursive, which
\* takes its lookup name.
Normalize ==
    /\ norm_pc = "cleaned"
    /\ item # NoItem
    /\ item_lookup_name' = normalize_package_name_for_find(Serialized(item))
    /\ norm_pc' = "normalized"
    /\ UNCHANGED <<raw_token, item, item_again>>
    /\ UNCHANGED <<resolver_vars, parser_vars>>

NormNext == Clean \/ CleanAgain \/ Normalize

NormSpec == NormInit /\ [][NormNext]_vars

(***************************************************************************)
(* Properties                                                              *)
(***************************************************************************)

s_lib_pkgB == <<"l", "i", "b", ":", "p", "k", "g", "B">>
s_cmd_gcc == <<"c", "m", "d", ":", "g", "c", "c">>

\* The recipe files of pkgA and gcc as find_recipe_file names them.
PathOfPkgA == find_recipe_file(s_pkgA)
PathOfGcc == find_recipe_file(s_gcc)

\* The corpus has the two-recipe cycle pkgA -> lib:pkgB -> pkgA.
HasCycle == 2 \in reqs[s_pkgA] /\ 1 \in reqs[s_pkgB]

\* C1: for every corpus and every set of initial names, with or without
\* cycles, the resolution run eventually finishes: main gets to its result.
C1_Terminates == <>(pc = "done")

\* A run over a corpus with the cycle pkgA <-> pkgB has finished with both
\* recipes processed.
C1_Witness ==
    /\ pc = "done"
    /\ HasCycle
    /\ {s_pkgA, s_pkgB} \subseteq processed_lookup_tracker

C3_Case ==
    /\ reqs[s_pkgA] = {2}
    /\ reqs[s_pkgB] = {1}
    /\ initial_packages_as_specified = {s_pkgA}

\* C3: on the two-recipe cycle, resolving {pkgA} finishes with the result
\* {lib:pkgB}, the recipe of pkgA having been parsed once.
C3_CycleResolves ==
    C3_Case ~> (/\ pc = "done"
                /\ final_dependencies_to_install = {s_lib_pkgB}
                /\ parse_calls[PathOfPkgA] = 1)

\* The run on the two-recipe cycle has finished, pkgB having led back to
\* pkgA.
C3_Witness ==
    /\ C3_Case
    /\ pc = "done"
    /\ s_pkgA \in all_found_dependencies

\* The prefix tags of the specification.
SpecPrefixes ==
    << <<"c", "m", "d", ":">>, <<"l", "i", "b", ":">>,
       <<"d", "e", "v", "e", "l", ":">>, <<"h", "p", "k", "g", ":">>,
       <<"d", "a", "t", "a", ":">>, <<"s", "o", "u", "r", "c", "e", ":">>,
       <<"g", "e", "n", "e", "r", "i", "c", ":">>,
       <<"p", "a", "c", "k", "a", "g", "e", ":">> >>

\* A discovered item names something the user asked for: in full, or with
\* its prefix tag removed.
NamesInitial(dep) ==
    \/ dep \in initial_packages_as_specified
    \/ StripLeading(dep, SpecPrefixes) \in initial_packages_as_specified

\* C4: the final result holds no discovered item whose full string or whose
\* bare basename (any recognized prefix tag removed) is a name the user
\* gave, and holds every other discovered item.
C4_NoInitialNameInResult ==
    pc = "done" =>
        \A dep \in all_found_dependencies :
            dep \in final_dependencies_to_install <=> ~NamesInitial(dep)

\* C5: when the user asks for gcc, the final result holds neither cmd:gcc
\* nor gcc.
C5_GccSuppressed ==
    (pc = "done" /\ s_gcc \in initial_packages_as_specified) =>
        /\ s_cmd_gcc \notin final_dependencies_to_install
        /\ s_gcc \notin final_dependencies_to_install

\* The user asked for gcc and a run has finished in which both cmd:gcc and
\* gcc were discovered as requirements.
C5_Witness ==
    /\ pc = "done"
    /\ s_gcc \in initial_packages_as_specified
    /\ {s_cmd_gcc, s_gcc} \subseteq all_found_dependencies

\* C6: a quoted block continued over several lines with backslashes parses
\* to the same set as the same tokens in a quoted block on one line.
C6_ContinuedSameAsSingle ==
    (parse_pc = "returned" /\ block_form = "continued" /\ fault = NoFault) =>
        returned = parse_recipe(Layout("single", block_tokens))

\* C7: cleaning is idempotent: cleaning the serialized item of a token gives
\* the same item.
C7_Idempotent == norm_pc = "recleaned" => item_again = item

\* The version specifiers of the specification.
SpecVersionSpecifiers ==
    { <<"=", "=">>, <<">", "=">>, <<"<", "=">>, <<">">>, <<"<">>,
      <<"~", "=">>, <<"!", "=">>, <<"=">>, <<"%">> }

\* The architecture/build suffixes of the specification.
SpecSuffixes ==
    { <<"_", "x", "8", "6", "_", "g", "c", "c", "2">>,
      <<"_", "x", "8", "6", "_", "6", "4">>,
      <<"_", "x", "8", "6">>,
      <<"_", "g", "c", "c", "2">>,
      <<"_", "a", "n", "y">>,
      <<"_", "s", "o", "u", "r", "c", "e">>,
      <<"_", "p", "r", "i", "m", "a", "r", "y", "A", "r", "c", "h">>,
      <<"_", "h", "o", "s", "t">>,
      <<"_", "b", "u", "i", "l", "d">>,
      <<"_", "s", "o", "u", "r", "c", "e", "_", "k", "i", "t">>,
      <<"_", "c", "r", "o", "s", "s">>,
      <<"_", "b", "o", "o", "t", "s", "t", "r", "a", "p">>,
      <<"_", "t", "o", "o", "l", "s">>,
      <<"_", "d", "e", "v", "e", "l">> }

\* C8: the basename of every emitted item contains no version specifier and
\* does not end in a known architecture/build suffix.
C8_BasenameClean ==
    (norm_pc = "cleaned" /\ item # NoItem) =>
        /\ \A spec \in SpecVersionSpecifiers : ~Contains(item.basename, spec)
        /\ \A suffix \in SpecSuffixes : ~EndsWith(item.basename, suffix)

\* A name that is never a dependency: empty, the meta-name haiku, an
\* unresolved variable, or a placeholder literal.
Rejectable(basename) ==
    \/ basename = <<>>
    \/ basename = <<"h", "a", "i", "k", "u">>
    \/ (basename # <<>> /\ Head(basename) = "$")
    \/ basename \in { <<"n", "o", "n", "e">>, <<"a", "n", "y">>,
                      <<"s", "e", "t">>, <<"y", "e", "s">>, <<"n", "o">>,
                      <<"t", "r", "u", "e">>, <<"f", "a", "l", "s", "e">> }

\* haiku, $arch and none
RejectedExamples ==
    {<<"h", "a", "i", "k", "u">>, <<"$", "a", "r", "c", "h">>, <<"n", "o", "n", "e">>}

\* C9 as amended: no item is emitted for a token whose cleaned basename is
\* empty, haiku, starts with "$" or is a placeholder literal; haiku, $arch
\* and none give no item, alone or behind one of the prefixes parse_recipe
\* splits off (cmd:, lib:, devel:, hpkg:, data:, source:).
C9_Rejects ==
    norm_pc = "cleaned" =>
        /\ Rejectable(CleanName(SplitPrefix(raw_token).name_part)) => item = NoItem
        /\ item # NoItem => ~Rejectable(item.basename)
        /\ \A b \in RejectedExamples :
              (raw_token = b
               \/ \E i \in 1..Len(RecipePrefixes) : raw_token = RecipePrefixes[i] \o b)
              => item = NoItem

\* cmd:haiku has been cleaned.
C9_Witness ==
    /\ norm_pc = "cleaned"
    /\ raw_token = <<"c", "m", "d", ":", "h", "a", "i", "k", "u">>

\* C9: haiku, $arch and none give no item, alone or behind any recognized
\* prefix tag.
C9_RejectsBehindAnyTag ==
    norm_pc = "cleaned" =>
        \A b \in RejectedExamples :
            (raw_token = b
             \/ \E i \in 1..Len(SpecPrefixes) : raw_token = SpecPrefixes[i] \o b)
            => item = NoItem

\* C10: the prefix is kept, the version constraint and the architecture
\* suffix go: lib:openssl>=1.1 gives (lib:, openssl) and cmd:python3.9_x86
\* gives (cmd:, python3.9).
C10_PrefixKept ==
    norm_pc = "cleaned" =>
        /\ raw_token = <<"l", "i", "b", ":", "o", "p", "e", "n", "s", "s", "l",
                         ">", "=", "1", ".", "1">>
           => item = [prefix |-> <<"l", "i", "b", ":">>,
                      basename |-> <<"o", "p", "e", "n", "s", "s", "l">>]
        /\ raw_token = <<"c", "m", "d", ":", "p", "y", "t", "h", "o", "n", "3",
                         ".", "9", "_", "x", "8", "6">>
           => item = [prefix |-> <<"c", "m", "d", ":">>,
                      basename |-> <<"p", "y", "t", "h", "o", "n", "3", ".", "9">>]

\* lib:openssl>=1.1 has been cleaned.
C10_Witness ==
    /\ norm_pc = "cleaned"
    /\ raw_token = <<"l", "i", "b", ":", "o", "p", "e", "n", "s", "s", "l",
                     ">", "=", "1", ".", "1">>

\* C11: parse_recipe never raises: whatever read error the file raises, on
\* open() or at any line, it prints a diagnostic and returns the empty set.
C11_NeverRaises ==
    /\ parse_pc # "raised"
    /\ (parse_pc = "returned" /\ fault # NoFault) =>
            (returned = {} /\ parse_errors # {})

\* A name a call is made for that gets past the base cases and has no recipe.
IsLeaf(name) ==
    LET lookup_name == normalize_package_name_for_find(name)
    IN  /\ lookup_name # <<>>
        /\ lookup_name # s_haiku
        /\ find_recipe_file(lookup_name) = NoRecipe

\* The names resolve_dependencies_recursive has been called for so far.
CalledFor ==
    all_found_dependencies \cup (initial_packages_as_specified \ pending)

\* C12: a requirement or initial name without recipe is a leaf: the run does
\* not fail on it, a warning is printed for it, no call stays active for it
\* and nothing is parsed for it, the requirement stays in the discovered set,
\* and the run goes on: when it is done every initial name has been taken
\* and every requirement of every parsed recipe has been discovered.
C12_MissingRecipeIsLeaf ==
    /\ pc # "RecursionError"
    /\ \A name \in CalledFor :
          IsLeaf(name) =>
            LET lookup_name == normalize_package_name_for_find(name)
            IN  /\ <<"no recipe", lookup_name>> \in warnings
                /\ lookup_name \in processed_lookup_tracker
                /\ \A i \in 1..Len(stack) : stack[i].lookup_name # lookup_name
                /\ \A path \in DOMAIN parse_calls : path[2] # lookup_name
    /\ pc = "done" =>
          /\ pending = {}
          /\ \A path \in DOMAIN parse_calls :
                \A dep \in DirectDeps(reqs, path) :
                    normalize_package_name_for_find(dep) # path[2]
                    => dep \in all_found_dependencies

\* The warning for zlib has been printed and the call that required it still
\* has requirements to go through.
C12_Witness ==
    /\ pc = "resolving"
    /\ <<"no recipe", s_zlib>> \in warnings
    /\ stack # <<>>
    /\ stack[Len(stack)].direct_deps # {}
    /\ \E dep \in all_found_dependencies : IsLeaf(dep)

\* The requirements a call for lookup_name adds to the discovered set: those
\* of its recipe that do not lead back to the recipe itself.
AddedBy(corpus, lookup_name) ==
    LET recipe_path == find_recipe_file(lookup_name)
    IN  IF lookup_name = <<>> \/ lookup_name = s_haiku \/ recipe_path = NoRecipe
        THEN {}
        ELSE {dep \in DirectDeps(corpus, recipe_path) :
                normalize_package_name_for_find(dep) # lookup_name}

\* The lookup names reachable from the given ones, whatever the order.
RECURSIVE Reachable(_, _)
Reachable(corpus, lookup_names) ==
    LET more == lookup_names \cup
                UNION {{normalize_package_name_for_find(dep) :
                            dep \in AddedBy(corpus, lookup_name)} :
                       lookup_name \in lookup_names}
    IN  IF more = lookup_names THEN lookup_names ELSE Reachable(corpus, more)

\* The discovered set as a function of the corpus and the initial names only.
Discovered(corpus, initial) ==
    UNION {AddedBy(corpus, lookup_name) :
           lookup_name \in Reachable(corpus,
               {normalize_package_name_for_find(name) : name \in initial})}

\* C13: for a corpus and initial names, every order of going through the
\* initial names and through the requirements of each recipe ends with the
\* same discovered set.
C13_OrderIndependent ==
    pc = "done" =>
        all_found_dependencies = Discovered(reqs, initial_packages_as_specified)

\* A run with two initial names over a recipe of pkgA with two requirements,
\* which has parsed the recipes of pkgA and of pkgB, is done.
C13_Witness ==
    /\ pc = "done"
    /\ Cardinality(initial_packages_as_specified) = 2
    /\ Cardinality(reqs[s_pkgA]) = 2
    /\ {PathOfPkgA, find_recipe_file(s_pkgB)} \subseteq DOMAIN parse_calls

\* C14 as amended: of the requirements of a recipe being processed, each one
\* whose lookup name is not that of the recipe is added to the discovered
\* set when the loop takes it; one that leads back to the recipe itself is
\* skipped by the test in the loop: it is not added and no call is made.
C14_AllButSelfAdded ==
    [][(pc = "resolving" /\ stack # <<>> /\ Len(stack') >= Len(stack)) =>
        LET top == stack[Len(stack)]
            taken == top.direct_deps \ stack'[Len(stack)].direct_deps
        IN  \A dep \in taken :
                IF normalize_package_name_for_find(dep) = top.lookup_name
                THEN /\ all_found_dependencies' = all_found_dependencies
                     /\ Len(stack') = Len(stack)
                     /\ processed_lookup_tracker' = processed_lookup_tracker
                ELSE all_found_dependencies' = all_found_dependencies \cup {dep}
      ]_vars

\* The recipe of gcc, which requires cmd:gcc, has been processed in a
\* finished run and cmd:gcc is not in the discovered set.
C14_Witness ==
    /\ pc = "done"
    /\ PathOfGcc \in DOMAIN parse_calls
    /\ s_cmd_gcc \in DirectDeps(reqs, PathOfGcc)
    /\ s_cmd_gcc \notin all_found_dependencies

\* C14: every requirement of every recipe processed is in the discovered
\* set, one that refers back to the recipe itself included.
C14_AllRequirementsAdded ==
    pc = "done" =>
        \A path \in DOMAIN parse_calls :
            DirectDeps(reqs, path) \subseteq all_found_dependencies

\* name.startswith(prefix) for one of the prefixes
HasPrefixOf(name, prefixes) ==
    \E i \in 1..Len(prefixes) : StartsWith(name, prefixes[i])

\* C15 as amended: a name given by the user, prefixed or not, is looked up
\* as the directory named by it with its prefix tag removed: cmd:gcc and gcc
\* both resolve to the recipe of directory gcc, and a name without a
\* directory of its own is a leaf.
C15_LookedUpByDirectoryName ==
    /\ stack # <<>> =>
          LET call == stack[1]
          IN  /\ call.package_name_from_caller \in initial_packages_as_specified
              /\ call.recipe_path[2] =
                    StripLeading(call.package_name_from_caller, RecipePrefixes)
              /\ call.package_name_from_caller \in {s_gcc, s_cmd_gcc}
                    => call.recipe_path = PathOfGcc
    /\ (pc = "done" /\ s_cmd_gcc \in initial_packages_as_specified)
          => PathOfGcc \in DOMAIN parse_calls
    /\ s_zlib \in initial_packages_as_specified \ pending
          => <<"no recipe", s_zlib>> \in warnings

\* The call main makes for cmd:gcc is active on the recipe of directory gcc.
C15_Witness ==
    /\ stack # <<>>
    /\ stack[1].package_name_from_caller = s_cmd_gcc
    /\ stack[1].recipe_path = PathOfGcc

\* C15: a name given by the user with a recognized prefix tag resolves only
\* to a recipe registered under exactly that prefixed name, never through
\* the bare name.
C15_PrefixedLookedUpExactly ==
    stack # <<>> =>
        (HasPrefixOf(stack[1].package_name_from_caller, SpecPrefixes)
         => stack[1].recipe_path[2] = stack[1].package_name_from_caller)

\* The recipe files that could supply a lookup name: every .recipe file of
\* every package directory of that name.
Candidates(lookup_name) ==
    UNION {{<<dir.category, lookup_name, RecipeFilesIn(dir.files)[i]>> :
                i \in 1..Len(RecipeFilesIn(dir.files))} :
           dir \in {d \in PackageDirs : d.package = lookup_name}}

\* The recipe each package of the checkout resolves to: for pkgA the one of
\* the category listed first, for pkgB the first in sorted order, for gcc
\* the first in listing order that starts with "gcc".
Winners ==
    { <<s_dev_libs, s_pkgA,
        <<"p", "k", "g", "A", "-", "1", ".", "0", ".", "r", "e", "c", "i",
          "p", "e">> >>,
      <<s_sys_devel, s_pkgB,
        <<"P", "k", "g", "B", "-", "2", ".", "0", ".", "r", "e", "c", "i",
          "p", "e">> >>,
      <<s_sys_devel, s_gcc,
        <<"g", "c", "c", "_", "b", "o", "o", "t", "s", "t", "r", "a", "p",
          "-", "1", "3", ".", "r", "e", "c", "i", "p", "e">> >> }

BlockItems == CleanedDeps(block_tokens)

\* C17: in a quoted block, a line that ends neither with the closing quote
\* nor with a backslash is appended and the block stays open; the block
\* closes at the line ending with the closing quote, so that the tokens of
\* all its lines are in the result.
C17_QuotedBlockRunsToClosingQuote ==
    (block_form = "lines" /\ fault = NoFault) =>
        /\ (parse_pc = "reading"
            /\ line_number >= BlockStartLine
            /\ line_number <= BlockStartLine + Len(block_tokens))
           => parser.in_block
        /\ parse_pc = "returned" => BlockItems \subseteq returned

\* C18: a line ending with an escaped quote does not close the block,
\* neither the line the block starts on nor a later one: after it the
\* parser is still in the block.
C18_EscapedQuoteKeepsBlockOpen ==
    (block_form = "escaped"
     /\ parse_pc = "reading"
     /\ line_number >= BlockStartLine
     /\ line_number < BlockStartLine + Len(block_tokens))
    => parser.in_block

\* C19: when the file ends with the block still open, the accumulated content
\* is processed as a block: the items of all its tokens are returned.
C19_OpenBlockFlushedAtEOF ==
    (parse_pc = "returned" /\ fault = NoFault /\ block_form \in OpenAtEOF) =>
        /\ parser.in_block
        /\ returned = BlockItems

\* A file ending after two lines that end with a backslash has been parsed.
C19_Witness ==
    /\ parse_pc = "returned"
    /\ fault = NoFault
    /\ block_form = "unterminated"
    /\ Len(block_tokens) = 2
    /\ parser.in_block
    /\ returned # {}

\* C20: an assignment complete on its line, quoted or unquoted, is processed
\* on that line: once the line is read its items are in the result and the
\* parser is outside of any block.
C20_CompleteLineFinalized ==
    (block_form \in {"single", "unquoted"} /\ line_number >= BlockStartLine) =>
        /\ ~parser.in_block
        /\ parser.current_block_content = <<>>
        /\ parser.dependencies = BlockItems

\* The line of an unquoted assignment with two tokens has been read and the
\* next line is about to be.
C20_Witness ==
    /\ parse_pc = "reading"
    /\ block_form = "unquoted"
    /\ Len(block_tokens) = 2
    /\ line_number = BlockStartLine
    /\ parser.dependencies # {}

\* The layouts continued with a backslash at the end of a line.
BackslashForms == {"continued", "unquoted continued", "unterminated"}

\* The lines of the block read so far.
BlockLinesRead == line_number - BlockStartLine + 1

\* C21: in a block continued with backslashes, quoted or unquoted, each
\* backslash is removed and one space put in its place: after a line ending
\* with a backslash the accumulated content is the tokens read so far, each
\* followed by one space, and when the block closes the result holds one
\* item per token: the last token of a line and the first of the next are
\* never one token.
C21_ContinuationSeparatesTokens ==
    (block_form \in BackslashForms
     /\ BlockLinesRead >= 1 /\ BlockLinesRead <= Len(block_tokens))
    => LET n == Len(block_tokens)
           k == BlockLinesRead
           last_word == IF block_form = "continued" /\ n > 1
                        THEN block_tokens[n] \o <<"\"">>
                        ELSE block_tokens[n]
       IN  IF k < n \/ block_form = "unterminated"
           THEN /\ parser.in_block
                /\ parser.current_block_content =
                        Join(SubSeq(block_tokens, 1, k), <<" ">>) \o <<" ">>
                /\ SplitWords(parser.current_block_content) =
                        SubSeq(block_tokens, 1, k)
           ELSE /\ ~parser.in_block
                /\ parser.dependencies =
                        CleanedDeps(SubSeq(block_tokens, 1, n - 1))
                        \cup CleanedDeps(<<last_word>>)

\* The two lines of an unquoted block, the first ending with a backslash,
\* have been read and both tokens are in the result.
C21_Witness ==
    /\ parse_pc = "reading"
    /\ block_form = "unquoted continued"
    /\ block_tokens = <<s_foo, s_bar>>
    /\ BlockLinesRead = 2
    /\ parser.dependencies = {s_foo, s_bar}

\* The .recipe files of the package directory a recipe path lies in.
FilesBeside(recipe_path) ==
    {c[3] : c \in {d \in Candidates(recipe_path[2]) : d[1] = recipe_path[1]}}

\* C22: the recipe found for a name is the first in sorted order of the
\* .recipe files of its package directory, in whatever order the directory
\* is listed, and no recipe is found only for a name of which no category
\* holds a package directory with a .recipe file.
C22_AlphabeticallyFirst ==
    /\ \A path \in DOMAIN parse_calls :
          \A f \in FilesBeside(path) : StrLeq(path[3], f)
    /\ \A w \in warnings : w[1] = "no recipe" => Candidates(w[2]) = {}

\* The directory names of the package families.
Families == {s_python, s_openssl, s_zlib, s_icu, s_boost, s_openjdk, s_glib}

\* A version: digits and dots, the first a digit.
IsVersion(s) ==
    /\ s # <<>>
    /\ IsDigit(<<s[1]>>)
    /\ \A i \in 1..Len(s) : s[i] = "." \/ IsDigit(<<s[i]>>)

\* name is fam followed by a version.
IsVersioned(name, fam) ==
    StartsWith(name, fam) /\ IsVersion(DropFirst(name, Len(fam)))

\* name is fam followed by a digit and more.
HasVersionOf(name, fam) ==
    /\ StartsWith(name, fam)
    /\ Len(name) > Len(fam)
    /\ IsDigit(<<name[Len(fam) + 1]>>)

\* C23: the lookup name of an item is the item without its prefix tag, and
\* the directory of the family when that is a versioned family name:
\* python3.9 gives python, openssl1.1 and openssl3.0 openssl, zlib1 zlib,
\* icu69 icu, boost1.83 boost, openjdk11 openjdk, glib2.78 glib; a name that
\* is not a family name followed by a digit is returned with the prefix
\* removed only.
C23_FamilyDirectory ==
    norm_pc = "normalized" =>
        /\ \A fam \in Families :
              IsVersioned(item.basename, fam) => item_lookup_name = fam
        /\ (\A fam \in Families : ~HasVersionOf(item.basename, fam))
              => item_lookup_name = item.basename

\* The tokens of the lines that are no requirement block: the value of
\* PROVIDES, unless the block lists it too, and the value of SOURCE_DIR.
ForeignTokens ==
    {tok \in {s_foo, <<"x">>} :
        \A i \in 1..Len(block_tokens) : block_tokens[i] # tok}

\* C24: outside of a block, a line that is blank, a comment or anything but
\* the start of a BUILD_REQUIRES or BUILD_PREREQUIRES assignment, a PROVIDES
\* or other assignment included, changes nothing of the parser's state: not
\* in_block, not the accumulated content, not the result; so the tokens of
\* such lines are never in the result.
C24_OutsideLinesChangeNothing ==
    /\ [](ForeignTokens \cap (parser.dependencies \cup returned) = {})
    /\ [][(/\ parse_pc = "reading"
           /\ line_number' = line_number + 1
           /\ ~parser.in_block
           /\ ~IsBlockStart(Strip(recipe_lines[line_number'])))
          => parser' = parser /\ returned' = returned]_vars

\* The comment and the PROVIDES line before the block, and the blank line
\* and the assignment after it, have been read, and the result is the items
\* of the block, which does not list what PROVIDES does.
C24_Witness ==
    /\ parse_pc = "reading"
    /\ block_form = "single"
    /\ block_tokens = <<s_bar>>
    /\ line_number = Len(recipe_lines)
    /\ line_number = BlockStartLine + 2
    /\ parser.dependencies = {s_bar}

\* The recipes reachable from the initial names by following requirement,
\* lookup name, recipe.
ReachableRecipes ==
    {find_recipe_file(name) :
        name \in Reachable(reqs, {normalize_package_name_for_find(n) :
                                    n \in initial_packages_as_specified})
                 \ {<<>>, s_haiku}}
    \ {NoRecipe}

\* C25: when a run is finished the recipes parsed are the reachable ones,
\* and the discovered set is the union over them of the requirements of
\* each, those that lead back to the recipe itself left out: nothing
\* reachable is missing and nothing else is in it.
C25_ExactClosure ==
    [](pc = "done" =>
        /\ DOMAIN parse_calls = ReachableRecipes
        /\ all_found_dependencies =
                UNION {{dep \in DirectDeps(reqs, path) :
                            normalize_package_name_for_find(dep) # path[2]} :
                       path \in ReachableRecipes})

\* The run for gcc is finished: through gcc's recipe it reached pkgA's,
\* through that pkgB's, and through that zlib, which has no recipe.
C25_Witness ==
    /\ pc = "done"
    /\ initial_packages_as_specified = {s_gcc}
    /\ Cardinality(DOMAIN parse_calls) = 3
    /\ all_found_dependencies =
            {s_pkgA, s_lib_pkgB, <<"h", "p", "k", "g", ":", "z", "l", "i", "b">>}

\* C26: an item enters the discovered set only as one of the requirements
\* the innermost active call parsed from its recipe and iterates over, and
\* the lookup name of that call is in the processed set by then, so that in
\* every state every discovered item comes
\* from a recipe whose lookup name is processed; and no step takes an
\* element out of the processed set or out of the discovered set.
C26_DiscoveredFromProcessed ==
    /\ [](\A i \in 1..Len(stack) :
            stack[i].lookup_name \in processed_lookup_tracker)
    /\ [][/\ processed_lookup_tracker \subseteq processed_lookup_tracker'
          /\ all_found_dependencies \subseteq all_found_dependencies'
          /\ \A dep \in all_found_dependencies' \ all_found_dependencies :
                /\ stack # <<>>
                /\ stack[Len(stack)].lookup_name \in processed_lookup_tracker
                /\ stack[Len(stack)].recipe_path \in DOMAIN parse_calls
                /\ dep \in stack[Len(stack)].direct_deps
         ]_vars

\* Two calls are active, both their lookup names are processed, and items
\* of both recipes have been discovered.
C26_Witness ==
    /\ pc = "resolving"
    /\ Len(stack) = 2
    /\ Cardinality(processed_lookup_tracker) >= 2
    /\ \E d1 \in all_found_dependencies, d2 \in all_found_dependencies :
          /\ d1 # d2
          /\ d1 \in DirectDeps(reqs, stack[1].recipe_path)
          /\ d2 \in DirectDeps(reqs, stack[2].recipe_path)
          /\ d2 \notin DirectDeps(reqs, stack[1].recipe_path)

====
